---- MODULE Spec2Model ----
(***************************************************************************)
(* Model of the uikit helpers: the useBodyScrollLock hook (a module-wide   *)
(* lock counter guarding the body styles) and the NumberInput utilities    *)
(* (getNumericInputValidator, prepareStringValue,                          *)
(* getPossibleNumberSubstring, getParsedValue, clampToNearestStepValue).   *)
(*                                                                         *)
(* The hook is a state machine (Spec).  The utilities are pure functions:  *)
(* each has a specification whose Init draws the arguments from bounded    *)
(* sets and whose actions apply the function (SpecValidator, SpecClamp,    *)
(* SpecString).                                                            *)
(***************************************************************************)
EXTENDS Integers, Sequences, FiniteSets, TLC

VARIABLES locks, storedBodyStyle, bodyStyle, hooks, calls, initialBodyStyle,
          input, output

vars == <<locks, storedBodyStyle, bodyStyle, hooks, calls, initialBodyStyle,
          input, output>>

\* initialBodyStyle records the inline styles of the body when the page was
\* loaded; the program never reads it
lockVars == <<locks, storedBodyStyle, bodyStyle, hooks, calls, initialBodyStyle>>

pureVars == <<input, output>>

(***************************************************************************)
(* Bounds                                                                  *)
(***************************************************************************)
\* number of components that use the hook at the same time
NumHooks == 3

(***************************************************************************)
(* useBodyScrollLock                                                       *)
(***************************************************************************)
Hooks == 1..NumHooks

\* A value of an inline style property is the empty string, written <<>>, or
\* a one-word string: <<"scroll">>, and <<n>> for the string `${n}px`.
\* inline values of document.body.style.overflow the page may start with
InitialOverflows == {<<>>, <<"scroll">>}

\* inline paddings of the body the page may start with
InitialPaddings == {<<>>, <<4>>}

\* window.innerWidth - clientWidth / innerHeight - clientHeight
ScrollbarWidths == {0, 15}

\* padding of the body that comes from the stylesheet when no inline padding
\* is set
SheetPaddings == {0, 8}

\* `if (storedProperty)`: the empty string is falsy
Truthy(s) == s # <<>>

\* getBodyComputedPadding: the inline padding wins over the stylesheet
ComputedPadding(inline, sheet) == IF inline = <<>> THEN sheet ELSE inline[1]

\* What the page gives to setBodyStyles: scrollbar widths and sheet paddings
Environments ==
    [y : ScrollbarWidths, x : ScrollbarWidths,
     sheetRight : SheetPaddings, sheetBottom : SheetPaddings]

setBodyStyles(env) ==
    LET bodyPaddingRight  == ComputedPadding(bodyStyle.paddingRight, env.sheetRight)
        bodyPaddingBottom == ComputedPadding(bodyStyle.paddingBottom, env.sheetBottom)
    IN  /\ storedBodyStyle' = [overflow      |-> bodyStyle.overflow,
                               paddingRight  |-> bodyStyle.paddingRight,
                               paddingBottom |-> bodyStyle.paddingBottom]
        /\ bodyStyle' =
             [overflow      |-> <<"hidden">>,
              paddingRight  |-> IF env.y # 0 THEN <<bodyPaddingRight + env.y>>
                                ELSE bodyStyle.paddingRight,
              paddingBottom |-> IF env.x # 0 THEN <<bodyPaddingBottom + env.x>>
                                ELSE bodyStyle.paddingBottom]

\* the name of the CSS declaration behind an attribute of body.style
CssPropertyName(property) ==
    CASE property = "overflow" -> "overflow"
      [] property = "paddingRight" -> "padding-right"
      [] property = "paddingBottom" -> "padding-bottom"

\* the ASCII lowercase of the three names the loop goes through
AsciiLowercase(property) ==
    CASE property = "overflow" -> "overflow"
      [] property = "paddingRight" -> "paddingright"
      [] property = "paddingBottom" -> "paddingbottom"

\* style.removeProperty(property): the argument is put in ASCII lowercase
\* and the declaration of exactly that name is removed; no declaration has
\* the name "paddingright", so the call removes nothing for the camel-case
\* names
RemoveProperty(style, property) ==
    IF AsciiLowercase(property) = CssPropertyName(property)
    THEN [style EXCEPT ![property] = <<>>]
    ELSE style

\* one turn of the loop: style[property] = stored, or removeProperty(property)
RestoredProperty(style, property) ==
    IF Truthy(storedBodyStyle[property])
    THEN [style EXCEPT ![property] = storedBodyStyle[property]]
    ELSE RemoveProperty(style, property)

restoreBodyStyles ==
    /\ bodyStyle' =
         RestoredProperty(
             RestoredProperty(RestoredProperty(bodyStyle, "overflow"), "paddingRight"),
             "paddingBottom")
    /\ UNCHANGED storedBodyStyle

\* the test of the effect body: the first lock sets the styles
IsFirstLock(n) == n = 1

\* a cleanup that tests the counter before the decrement took effect
IsLastReleaseOffByOne(n) == n = 1

\* the test of the cleanup: the last release restores the styles
IsLastRelease(n) == n = 0

\* The body of the layout effect when enabled is true (locks++ ...)
EffectBody(env) ==
    /\ locks' = locks + 1
    /\ IF IsFirstLock(locks')
       THEN setBodyStyles(env) /\ calls' = <<"setBodyStyles">>
       ELSE UNCHANGED <<storedBodyStyle, bodyStyle>> /\ calls' = <<>>

\* The cleanup the effect returns when enabled is true (locks-- ...)
EffectCleanup ==
    /\ locks' = locks - 1
    /\ IF IsLastRelease(locks')
       THEN restoreBodyStyles /\ calls' = <<"restoreBodyStyles">>
       ELSE UNCHANGED <<storedBodyStyle, bodyStyle>> /\ calls' = <<>>

\* The effect when enabled is false: nothing to do, no cleanup
EffectIdle ==
    /\ calls' = <<>>
    /\ UNCHANGED <<locks, storedBodyStyle, bodyStyle>>

\* A component that uses the hook is mounted: the layout effect runs
Mount(h, enabled, env) ==
    /\ hooks[h] = "unmounted"
    /\ hooks' = [hooks EXCEPT ![h] = IF enabled THEN "enabled" ELSE "disabled"]
    /\ IF enabled THEN EffectBody(env) ELSE EffectIdle
    /\ UNCHANGED <<pureVars, initialBodyStyle>>

\* The component renders with enabled turned on: the dependency [enabled]
\* changed, the previous effect had no cleanup, the effect runs again
Enable(h, env) ==
    /\ hooks[h] = "disabled"
    /\ hooks' = [hooks EXCEPT ![h] = "enabled"]
    /\ EffectBody(env)
    /\ UNCHANGED <<pureVars, initialBodyStyle>>

\* The component renders with enabled turned off: the cleanup of the
\* previous effect runs, the new effect returns undefined
Disable(h) ==
    /\ hooks[h] = "enabled"
    /\ hooks' = [hooks EXCEPT ![h] = "disabled"]
    /\ EffectCleanup
    /\ UNCHANGED <<pureVars, initialBodyStyle>>

\* The component is unmounted: the cleanup runs if the effect returned one
Unmount(h) ==
    /\ hooks[h] # "unmounted"
    /\ hooks' = [hooks EXCEPT ![h] = "unmounted"]
    /\ IF hooks[h] = "enabled" THEN EffectCleanup ELSE EffectIdle
    /\ UNCHANGED <<pureVars, initialBodyStyle>>

NoCall == [fn |-> "none"]

NoResult == [done |-> FALSE]

\* the hook is not used: the state the pure-function specifications keep
LockUnused ==
    /\ locks = 0
    /\ storedBodyStyle = [overflow |-> <<>>, paddingRight |-> <<>>, paddingBottom |-> <<>>]
    /\ bodyStyle = [overflow |-> <<>>, paddingRight |-> <<>>, paddingBottom |-> <<>>]
    /\ initialBodyStyle = bodyStyle
    /\ hooks = [h \in Hooks |-> "unmounted"]
    /\ calls = <<>>

InitLock ==
    /\ locks = 0
    /\ storedBodyStyle = [overflow |-> <<>>, paddingRight |-> <<>>, paddingBottom |-> <<>>]
    /\ bodyStyle \in [overflow : InitialOverflows,
                      paddingRight : InitialPaddings,
                      paddingBottom : InitialPaddings]
    /\ initialBodyStyle = bodyStyle
    /\ hooks = [h \in Hooks |-> "unmounted"]
    /\ calls = <<>>

Init ==
    /\ InitLock
    /\ input = NoCall
    /\ output = NoResult

Next ==
    \/ \E h \in Hooks, enabled \in BOOLEAN, env \in Environments : Mount(h, enabled, env)
    \/ \E h \in Hooks, env \in Environments : Enable(h, env)
    \/ \E h \in Hooks : Disable(h)
    \/ \E h \in Hooks : Unmount(h)

Spec == Init /\ [][Next]_vars

(***************************************************************************)
(* C1: setBodyStyles runs exactly once in every step that takes locks from *)
(* 0 to 1 and in no other step, and restoreBodyStyles runs exactly once in *)
(* every step that takes locks from 1 to 0 and in no other step, whatever  *)
(* the nesting and the order of release.                                   *)
(***************************************************************************)
C1_StepCalls ==
    /\ (locks = 0 /\ locks' = 1) => calls' = <<"setBodyStyles">>
    /\ (locks = 1 /\ locks' = 0) => calls' = <<"restoreBodyStyles">>
    /\ ~(locks = 0 /\ locks' = 1) /\ ~(locks = 1 /\ locks' = 0) => calls' = <<>>

C1_ExactlyOncePerTransition == [][C1_StepCalls]_vars

\* two hooks are still active after an out-of-order release: the lock is
\* nested and no style function ran in that step
C1_Witness ==
    /\ locks = 2
    /\ hooks[1] = "disabled"
    /\ hooks[2] = "enabled"
    /\ hooks[3] = "enabled"
    /\ calls = <<>>
    /\ bodyStyle.overflow = <<"hidden">>

(***************************************************************************)
(* JavaScript numbers                                                      *)
(*                                                                         *)
(* A number is a record [k, v].  k = "num" is a finite number whose value  *)
(* is v / Denom: fractions are kept exactly, in units of 1 / Denom.  The   *)
(* other kinds are NaN, the two infinities, null and undefined.            *)
(***************************************************************************)
\* the denominator of the fixed-point numbers
Denom == 2

\* the safe-integer range is 2^53 - 1 in the source; the model keeps its
\* shape with SafeBits bits
SafeBits == 4

Num(n) == [k |-> "num", v |-> n]

\* the integer i as a number
Int2Num(i) == Num(i * Denom)

NaN == [k |-> "nan", v |-> 0]

PosInf == [k |-> "pinf", v |-> 0]

NegInf == [k |-> "ninf", v |-> 0]

Null == [k |-> "null", v |-> 0]

Undefined == [k |-> "undefined", v |-> 0]

MAX_SAFE_INTEGER == Int2Num(2^SafeBits - 1)

MIN_SAFE_INTEGER == Int2Num(-(2^SafeBits - 1))

\* the place of a number on the extended line: -Infinity, finite, Infinity
Rank(a) == CASE a.k = "ninf" -> -1 [] a.k = "pinf" -> 1 [] OTHER -> 0

\* a < b on numbers: false when either is NaN
Lt(a, b) ==
    /\ a.k # "nan"
    /\ b.k # "nan"
    /\ \/ Rank(a) < Rank(b)
       \/ Rank(a) = 0 /\ Rank(b) = 0 /\ a.v < b.v

\* a > b
Gt(a, b) == Lt(b, a)

\* a <= b
Le(a, b) == Lt(a, b) \/ (a.k # "nan" /\ a = b)

\* a >= b
Ge(a, b) == Le(b, a)

\* Number.isNaN
IsNaN(a) == a.k = "nan"

\* Number.isInteger: a finite number without a fraction
IsInteger(a) == a.k = "num" /\ a.v % Denom = 0

\* Math.floor(a / b) for numbers of units a, b with b # 0
FloorDiv(a, b) == IF b > 0 THEN a \div b ELSE (-a) \div (-b)

\* a parameter default (`min = Number.MIN_SAFE_INTEGER`) and `a ?? d`
DefaultTo(a, d) == IF a.k = "undefined" THEN d ELSE a

\* `a || d` on a number or undefined: 0, NaN and undefined are falsy
OrElse(a, d) ==
    IF a.k = "undefined" \/ a.k = "nan" \/ (a.k = "num" /\ a.v = 0) THEN d ELSE a

(***************************************************************************)
(* getNumericInputValidator                                                *)
(***************************************************************************)
\* the sign check of the validator
NegativeNotAllowed(positiveOnly, value) == positiveOnly /\ Lt(value, Int2Num(0))

\* the fraction check of the validator
FractionNotAllowed(withoutFraction, value) == withoutFraction /\ ~IsInteger(value)

\* a validator that checks the fraction before the sign
validatorFractionFirst(params, value) ==
    LET min == DefaultTo(params.min, MIN_SAFE_INTEGER)
        max == DefaultTo(params.max, MAX_SAFE_INTEGER)
    IN  IF value.k = "null" THEN "undefined"
        ELSE IF IsNaN(value) THEN "INCORRECT_NUMBER"
        ELSE IF FractionNotAllowed(params.withoutFraction, value)
             THEN "FRACTION_IS_NOT_ALLOWED"
        ELSE IF NegativeNotAllowed(params.positiveOnly, value)
             THEN "NEGATIVE_VALUE_IS_NOT_ALLOWED"
        ELSE IF Lt(value, min) THEN "NUMBER_LESS_THAN_MIN_ALLOWED"
        ELSE IF Gt(value, max) THEN "NUMBER_GREATER_THAN_MAX_ALLOWED"
        ELSE "undefined"

\* the validator getNumericInputValidator(params) returns, applied to value;
\* "undefined" is the result for a correct value
validator(params, value) ==
    LET min == DefaultTo(params.min, MIN_SAFE_INTEGER)
        max == DefaultTo(params.max, MAX_SAFE_INTEGER)
    IN  IF value.k = "null" THEN "undefined"
        ELSE IF IsNaN(value) THEN "INCORRECT_NUMBER"
        ELSE IF NegativeNotAllowed(params.positiveOnly, value)
             THEN "NEGATIVE_VALUE_IS_NOT_ALLOWED"
        ELSE IF FractionNotAllowed(params.withoutFraction, value)
             THEN "FRACTION_IS_NOT_ALLOWED"
        ELSE IF Lt(value, min) THEN "NUMBER_LESS_THAN_MIN_ALLOWED"
        ELSE IF Gt(value, max) THEN "NUMBER_GREATER_THAN_MAX_ALLOWED"
        ELSE "undefined"

\* the largest magnitude, in units, of the bounds given to the validator
MaxBound == 3

\* the bounds a caller may give: unset, or a number (with or without fraction)
ValidatorBounds == {Undefined} \cup {Num(n) : n \in -MaxBound..MaxBound}

\* the values given to the validator: null, NaN, the infinities, the numbers
\* around the given bounds and the numbers around the safe-integer range
ValidatorValues ==
    {Null, NaN, PosInf, NegInf}
      \cup {Num(n) : n \in -(MaxBound + 2)..(MaxBound + 2)}
      \cup {Num(MAX_SAFE_INTEGER.v + d) : d \in -1..1}
      \cup {Num(MIN_SAFE_INTEGER.v + d) : d \in -1..1}

ValidatorInputs ==
    [fn : {"validator"},
     params : [positiveOnly : BOOLEAN, withoutFraction : BOOLEAN,
               min : ValidatorBounds, max : ValidatorBounds],
     value : ValidatorValues]

InitValidator ==
    /\ LockUnused
    /\ input \in ValidatorInputs
    /\ output = NoResult

\* the widget validates the value
Validate ==
    /\ input.fn = "validator"
    /\ output = NoResult
    /\ output' = [done |-> TRUE, value |-> validator(input.params, input.value)]
    /\ UNCHANGED <<input, lockVars>>

NextValidator == Validate

SpecValidator == InitValidator /\ [][NextValidator]_vars

\* The checks of the claim, in its order, each with the code it reports
C2_CheckOrder ==
    <<"INCORRECT_NUMBER", "NEGATIVE_VALUE_IS_NOT_ALLOWED", "FRACTION_IS_NOT_ALLOWED",
      "NUMBER_LESS_THAN_MIN_ALLOWED", "NUMBER_GREATER_THAN_MAX_ALLOWED">>

\* whether the i-th check of the order fails for the input
C2_Fails(i) ==
    LET v   == input.value
        p   == input.params
        min == IF p.min = Undefined THEN MIN_SAFE_INTEGER ELSE p.min
        max == IF p.max = Undefined THEN MAX_SAFE_INTEGER ELSE p.max
    IN  CASE i = 1 -> v = NaN
          [] i = 2 -> p.positiveOnly /\ v # NaN /\ (v = NegInf \/ (v.k = "num" /\ v.v < 0))
          [] i = 3 -> p.withoutFraction /\ (v.k # "num" \/ v.v % Denom # 0)
          [] i = 4 -> v # NaN /\ (v = NegInf \/ (v.k = "num" /\ v.v < min.v))
          [] i = 5 -> v # NaN /\ (v = PosInf \/ (v.k = "num" /\ v.v > max.v))

(***************************************************************************)
(* C2: the validator reports exactly the first failing check in the order  *)
(* null, not-a-number, sign, fraction, lower bound, upper bound: null is   *)
(* correct for every config, and otherwise the code is the one of the      *)
(* earliest failing check, and undefined only when no check fails.         *)
(***************************************************************************)
C2_FirstFailingCheck ==
    output.done /\ input.fn = "validator" =>
        IF input.value = Null THEN output.value = "undefined"
        ELSE LET failing == {i \in 1..5 : C2_Fails(i)}
             IN  IF failing = {} THEN output.value = "undefined"
                 ELSE \E i \in failing :
                        /\ \A j \in failing : i <= j
                        /\ output.value = C2_CheckOrder[i]

\* a negative value with a fraction below min, under positiveOnly and
\* withoutFraction: three checks fail and the sign is reported
C2_Witness ==
    /\ output.done
    /\ input.fn = "validator"
    /\ input.params.positiveOnly
    /\ input.params.withoutFraction
    /\ input.params.min = Num(0)
    /\ input.value = Num(-1)
    /\ {i \in 1..5 : C2_Fails(i)} = {2, 3, 4}
    /\ output.value = "NEGATIVE_VALUE_IS_NOT_ALLOWED"

(***************************************************************************)
(* clampToNearestStepValue                                                 *)
(***************************************************************************)
\* a tie-break that also prefers the smaller value at equal distances
SmallerValueIsPreferrableOnTie(direction, smaller, greater, clamped) ==
    IF direction # "none"
    THEN direction = "up"
    ELSE greater - clamped >= clamped - smaller

\* a direction test that prefers the smaller value when going down
SmallerValueIsPreferrableDown(direction, smaller, greater, clamped) ==
    IF direction # "none"
    THEN direction = "down"
    ELSE greater - clamped > clamped - smaller

\* `direction ? direction === 'up' : <nearest>`: direction is "none" when
\* it is not given
SmallerValueIsPreferrable(direction, smaller, greater, clamped) ==
    IF direction # "none"
    THEN direction = "up"
    ELSE greater - clamped > clamped - smaller

\* a range clamp that forgets the upper bound
RangeClampNoMax(value, min, max) ==
    IF Lt(value, min) THEN min ELSE value

\* the hard range clamp of the value into [min, max]
RangeClamp(value, min, max) ==
    IF Gt(value, max) THEN max
    ELSE IF Lt(value, min) THEN min
    ELSE value

\* the snap of an integer clamped value to the step lattice anchored at base
\* (all arguments in units; step # 0)
SnapToStep(clamped, base, step, min, max, direction) ==
    LET amountOfStepsDiff == FloorDiv(clamped - base, step)
        stepDeviation     == clamped - base - step * amountOfStepsDiff
        smallerPossibleValue == base + amountOfStepsDiff * step
        greaterPossibleValue == base + (amountOfStepsDiff + 1) * step
        smallerValueIsPreferrable ==
            SmallerValueIsPreferrable(direction, smallerPossibleValue,
                                      greaterPossibleValue, clamped)
    IN  IF stepDeviation # 0
        THEN IF (greaterPossibleValue > max \/ smallerValueIsPreferrable)
                 /\ smallerPossibleValue >= min
             THEN smallerPossibleValue
             ELSE IF greaterPossibleValue <= max
                  THEN greaterPossibleValue
                  ELSE clamped
        ELSE clamped

\* a clamp that looks for the step lattice around the value it was given
\* instead of the range-clamped value
clampSnapsUnclampedValue(value, step, originalMin, originalMax, direction) ==
    LET max  == DefaultTo(originalMax, MAX_SAFE_INTEGER)
        base == OrElse(originalMin, Int2Num(0))
        min  == DefaultTo(originalMin, MIN_SAFE_INTEGER)
        clampedValue == RangeClamp(value, min, max)
    IN  IF ~IsInteger(value) \/ ~IsInteger(step)
        THEN clampedValue
        ELSE IF step.v = 0
             THEN clampedValue
             ELSE LET snapped == SnapToStep(value.v, base.v, step.v, min.v, max.v, direction)
                  IN  IF snapped = value.v THEN clampedValue ELSE Num(snapped)

\* clampToNearestStepValue({value, step, min, max, direction}).
\* With step = 0 the division gives an infinity or NaN, stepDeviation and
\* both possible values are NaN, every comparison with them is false and
\* the function returns the clamped value.
clampToNearestStepValue(value, step, originalMin, originalMax, direction) ==
    LET max  == DefaultTo(originalMax, MAX_SAFE_INTEGER)
        base == OrElse(originalMin, Int2Num(0))
        min  == DefaultTo(originalMin, MIN_SAFE_INTEGER)
        clampedValue == RangeClamp(value, min, max)
    IN  IF ~IsInteger(value) \/ ~IsInteger(step)
        THEN clampedValue
        ELSE IF step.v = 0
             THEN clampedValue
             ELSE Num(SnapToStep(clampedValue.v, base.v, step.v, min.v, max.v, direction))

\* the largest magnitude, in units, of the values, steps and bounds given
\* to clampToNearestStepValue
MaxClamp == 4

Directions == {"none", "up", "down"}

ClampValues == {NaN, PosInf, NegInf} \cup {Num(n) : n \in -(MaxClamp + 2)..(MaxClamp + 2)}

ClampSteps == {NaN} \cup {Num(n) : n \in -MaxClamp..MaxClamp}

ClampBounds == {Undefined} \cup {Num(n) : n \in -MaxClamp..MaxClamp}

\* the call of the tie-break example: value 5, step 10, min 0, max 100
ClampExamples ==
    {[fn |-> "clamp", value |-> Int2Num(5), step |-> Int2Num(10),
      min |-> Int2Num(0), max |-> Int2Num(100), direction |-> d] : d \in Directions}

ClampInputs ==
    [fn : {"clamp"}, value : ClampValues, step : ClampSteps,
     min : ClampBounds, max : ClampBounds, direction : Directions]
      \cup ClampExamples

InitClamp ==
    /\ LockUnused
    /\ input \in ClampInputs
    /\ output = NoResult

\* the widget clamps the value
Clamp ==
    /\ input.fn = "clamp"
    /\ output = NoResult
    /\ output' = [done |-> TRUE, again |-> FALSE,
                  value |-> clampToNearestStepValue(input.value, input.step,
                                                    input.min, input.max,
                                                    input.direction)]
    /\ UNCHANGED <<input, lockVars>>

\* the widget clamps the clamped value once more, with the same configuration
ClampAgain ==
    /\ input.fn = "clamp"
    /\ output.done
    /\ ~output.again
    /\ output' = [done |-> TRUE, again |-> TRUE, first |-> output.value,
                  value |-> clampToNearestStepValue(output.value, input.step,
                                                    input.min, input.max,
                                                    input.direction)]
    /\ UNCHANGED <<input, lockVars>>

NextClamp == Clamp \/ ClampAgain

SpecClamp == InitClamp /\ [][NextClamp]_vars

\* the first result of clampToNearestStepValue is there
ClampDone == input.fn = "clamp" /\ output.done /\ ~output.again

\* both bounds are given and finite
FiniteBounds == input.min.k = "num" /\ input.max.k = "num"

\* r lies in [min, max]
InRange(r) == r.k = "num" /\ input.min.v <= r.v /\ r.v <= input.max.v

(***************************************************************************)
(* C3 as stated: for all value, step, min, max and any direction with min  *)
(* and max finite, the result r satisfies min <= r <= max.                 *)
(***************************************************************************)
C3_RangeLawAllInputs == ClampDone /\ FiniteBounds => InRange(output.value)

(***************************************************************************)
(* C3 as amended: with finite bounds min <= max, a value that is not NaN,  *)
(* and a step that is not negative when value and step are both integers,  *)
(* the result r satisfies min <= r <= max, for any direction (on numbers   *)
(* whose arithmetic is exact, as the fixed-point numbers here are).         *)
(***************************************************************************)
C3_RangeLaw ==
    /\ ClampDone
    /\ FiniteBounds
    /\ input.min.v <= input.max.v
    /\ input.value # NaN
    /\ ~(IsInteger(input.value) /\ IsInteger(input.step) /\ input.step.v < 0)
    => InRange(output.value)

\* a value above max with a lattice point beyond max: the result is the
\* lattice point below, inside the range and different from max
C3_Witness ==
    /\ ClampDone
    /\ input = [fn |-> "clamp", value |-> Int2Num(3), step |-> Int2Num(2),
                min |-> Int2Num(-1), max |-> Int2Num(2), direction |-> "none"]
    /\ output.value = Int2Num(1)

\* the second result of clampToNearestStepValue is there
ClampedTwice == input.fn = "clamp" /\ output.done /\ output.again

\* value, step, min and max are integers, step > 0 and no direction is given
IntegerCall ==
    /\ IsInteger(input.value)
    /\ IsInteger(input.step)
    /\ IsInteger(input.min)
    /\ IsInteger(input.max)
    /\ input.step.v > 0
    /\ input.direction = "none"

(***************************************************************************)
(* C4 as stated: without a direction, for all integers v, step, min, max   *)
(* with step > 0, clamping the clamped value gives the clamped value.      *)
(***************************************************************************)
C4_IdempotentAllIntegers ==
    ClampedTwice /\ IntegerCall => output.value = output.first

(***************************************************************************)
(* C4 as amended: without a direction, for all safe integers v, step, min, *)
(* max with step > 0 and min <= max, clamping the clamped value gives the  *)
(* clamped value.                                                          *)
(***************************************************************************)
C4_Idempotent ==
    ClampedTwice /\ IntegerCall /\ input.min.v <= input.max.v
        => output.value = output.first

\* a value above max was clamped to an off-lattice max and snapped down;
\* the second clamp left the lattice point alone
C4_Witness ==
    /\ ClampedTwice
    /\ input = [fn |-> "clamp", value |-> Int2Num(3), step |-> Int2Num(2),
                min |-> Int2Num(-2), max |-> Int2Num(1), direction |-> "none"]
    /\ output.first = Int2Num(0)
    /\ output.value = Int2Num(0)

\* The effective bounds, the base and the two neighbouring step boundaries
\* of the range-clamped value, as the claims name them (in units)
ClaimMin == IF input.min = Undefined THEN MIN_SAFE_INTEGER.v ELSE input.min.v

ClaimMax == IF input.max = Undefined THEN MAX_SAFE_INTEGER.v ELSE input.max.v

ClaimBase == IF input.min = Undefined THEN 0 ELSE input.min.v

ClaimClamped ==
    IF input.value.v > ClaimMax THEN ClaimMax
    ELSE IF input.value.v < ClaimMin THEN ClaimMin
    ELSE input.value.v

\* the number of whole steps from the base up to the clamped value: the
\* largest k with k * step <= clamped - base for step > 0 (and the mirror
\* image for step < 0)
ClaimSteps ==
    LET d == ClaimClamped - ClaimBase
        s == input.step.v
        K == IF d < 0 THEN (d - 1)..(1 - d) ELSE (-d - 1)..(d + 1)
    IN  CHOOSE k \in K : IF s > 0 THEN k * s <= d /\ d < (k + 1) * s
                                  ELSE k * s >= d /\ d > (k + 1) * s

ClaimLower == ClaimBase + ClaimSteps * input.step.v

ClaimUpper == ClaimBase + (ClaimSteps + 1) * input.step.v

\* value and step are integers, the clamped value is off the lattice and
\* both neighbouring boundaries lie within [min, max]
OffLatticeBothAdmissible ==
    /\ IsInteger(input.value)
    /\ IsInteger(input.step)
    /\ input.step.v # 0
    /\ ClaimLower # ClaimClamped
    /\ ClaimMin <= ClaimLower /\ ClaimLower <= ClaimMax
    /\ ClaimMin <= ClaimUpper /\ ClaimUpper <= ClaimMax

\* the clamped value is exactly halfway between the two boundaries
Halfway == ClaimUpper - ClaimClamped = ClaimClamped - ClaimLower

(***************************************************************************)
(* C5 as stated: without a direction, an integer clamped value exactly     *)
(* halfway between its two neighbouring step boundaries (both within       *)
(* [min, max]) is clamped to the lower one; clamp(5, 10, 0, 100) is 0.     *)
(***************************************************************************)
C5_TieGoesToLower ==
    ClampDone /\ input.direction = "none" /\ OffLatticeBothAdmissible /\ Halfway
        => /\ output.value = Num(ClaimLower)
           /\ input \in ClampExamples => output.value = Int2Num(0)

(***************************************************************************)
(* C5 as amended: without a direction, an integer clamped value exactly    *)
(* halfway between its two neighbouring step boundaries (both within       *)
(* [min, max]) is clamped to the upper one; clamp(5, 10, 0, 100) is 10.    *)
(***************************************************************************)
C5_TieGoesToUpper ==
    ClampDone /\ input.direction = "none" /\ OffLatticeBothAdmissible /\ Halfway
        => /\ output.value = Num(ClaimUpper)
           /\ input \in ClampExamples => output.value = Int2Num(10)

\* the example of the tie-break: 5 is halfway between 0 and 10
C5_Witness ==
    /\ ClampDone
    /\ input = [fn |-> "clamp", value |-> Int2Num(5), step |-> Int2Num(10),
                min |-> Int2Num(0), max |-> Int2Num(100), direction |-> "none"]
    /\ Halfway
    /\ OffLatticeBothAdmissible
    /\ output.value = Int2Num(10)

(***************************************************************************)
(* C6 as stated: for an integer value and step with the clamped value off  *)
(* the lattice and both neighbouring boundaries within [min, max],         *)
(* direction 'down' returns lower and direction 'up' returns upper.        *)
(***************************************************************************)
C6_DownLowerUpUpper ==
    ClampDone /\ OffLatticeBothAdmissible =>
        /\ input.direction = "down" => output.value = Num(ClaimLower)
        /\ input.direction = "up" => output.value = Num(ClaimUpper)

(***************************************************************************)
(* C6 as amended: for an integer value and step with the clamped value off *)
(* the lattice and both neighbouring boundaries within [min, max],         *)
(* direction 'up' returns lower and direction 'down' returns upper.        *)
(***************************************************************************)
C6_UpLowerDownUpper ==
    ClampDone /\ OffLatticeBothAdmissible =>
        /\ input.direction = "up" => output.value = Num(ClaimLower)
        /\ input.direction = "down" => output.value = Num(ClaimUpper)

\* 1 is off the lattice 0, 2 of step 2: direction 'down' gave the upper
\* boundary 2, and 0 was admissible
C6_Witness ==
    /\ ClampDone
    /\ input = [fn |-> "clamp", value |-> Int2Num(1), step |-> Int2Num(2),
                min |-> Int2Num(-2), max |-> Int2Num(2), direction |-> "down"]
    /\ OffLatticeBothAdmissible
    /\ ClaimLower = Int2Num(0).v
    /\ output.value = Int2Num(2)

(***************************************************************************)
(* Strings                                                                 *)
(*                                                                         *)
(* A string is a sequence of characters, a character a one-letter string.  *)
(* A value of type string | undefined is a record [defined, str].          *)
(***************************************************************************)
\* the longest generated string
MaxLen == 4

DigitChars == <<"0", "1", "2", "3", "4", "5", "6", "7", "8", "9">>

\* \d
IsDigit(c) == \E i \in 1..10 : DigitChars[i] = c

\* \D
IsNonDigit(c) == ~IsDigit(c)

\* \s (the whitespace of the modelled alphabet)
IsWhitespace(c) == c \in {" ", "\t", "\n"}

IsNonWhitespace(c) == ~IsWhitespace(c)

\* [-+]
IsSign(c) == c \in {"-", "+"}

\* \.|,
IsSeparator(c) == c \in {".", ","}

\* [\d.+-]
IsNumberChar(c) == IsDigit(c) \/ c \in {".", "+", "-"}

\* a character class that lets the comma through as well
IsNumberCharOrComma(c) == IsDigit(c) \/ c \in {".", ",", "+", "-"}

Str(s) == [defined |-> TRUE, str |-> s]

UndefinedStr == [defined |-> FALSE, str |-> <<>>]

\* s.replace(from, to) with a string pattern: the first occurrence only
ReplaceFirst(s, from, to) ==
    IF \E i \in 1..Len(s) : s[i] = from
    THEN LET first == CHOOSE i \in 1..Len(s) :
                        s[i] = from /\ \A j \in 1..(i - 1) : s[j] # from
         IN  [s EXCEPT ![first] = to]
    ELSE s

(***************************************************************************)
(* prepareStringValue                                                      *)
(***************************************************************************)
\* a character filter that lets the comma through
KeepNumberCharsOrComma(s) == SelectSeq(s, IsNumberCharOrComma)

\* s.replace(/[^\d.+-]/g, '')
KeepNumberChars(s) == SelectSeq(s, IsNumberChar)

\* s.replace(/\s/g, '')
StripWhitespace(s) == SelectSeq(s, IsNonWhitespace)

prepareStringValue(value) ==
    KeepNumberChars(StripWhitespace(ReplaceFirst(value, ",", ".")))

(***************************************************************************)
(* pastedInputParsingRegex                                                 *)
(***************************************************************************)
\* The regular expression is /^([-+]?)(?:\D*)(\d*)(\.|,)?(\d*)(?:\D*)$/ :
\* a sign [-+]?, noise \D*, digits \d*, a separator (\.|,)?, digits \d* and
\* noise \D* up to the end.  Every quantifier is greedy and the engine
\* backtracks from right to left, so of all the ways to split the string
\* into these six parts it finds the one that is greatest in the
\* lexicographic order of the lengths of the parts.
\* the length of the longest run of digits of s that starts at index from
DigitRun(s, from) ==
    CHOOSE k \in 0..(Len(s) + 1 - from) :
        /\ \A j \in from..(from + k - 1) : IsDigit(s[j])
        /\ from + k <= Len(s) => ~IsDigit(s[from + k])

\* the length of the longest run of non-digits of s that starts at from
NonDigitRun(s, from) ==
    CHOOSE k \in 0..(Len(s) + 1 - from) :
        /\ \A j \in from..(from + k - 1) : IsNonDigit(s[j])
        /\ from + k <= Len(s) => ~IsNonDigit(s[from + k])

\* 1 when the optional part can be taken, else 0
OneIf(cond) == IF cond THEN 1 ELSE 0

\* all the splits <<sign, noise, digits, separator, digits>> (lengths of the
\* first five parts; the sixth part is the rest) that match the string
RegexSplits(s) ==
    LET n == Len(s)
        A == 0..OneIf(n >= 1 /\ IsSign(s[1]))
        B(a) == 0..NonDigitRun(s, a + 1)
        C(a, b) == 0..DigitRun(s, a + b + 1)
        D(a, b, c) == 0..OneIf(a + b + c + 1 <= n /\ IsSeparator(s[a + b + c + 1]))
        E(a, b, c, d) ==
            {e \in 0..DigitRun(s, a + b + c + d + 1) :
                NonDigitRun(s, a + b + c + d + e + 1) = n - (a + b + c + d + e)}
    IN  UNION {UNION {UNION {UNION {{<<a, b, c, d, e>> : e \in E(a, b, c, d)}
                                    : d \in D(a, b, c)}
                             : c \in C(a, b)}
                      : b \in B(a)}
               : a \in A}

\* m comes no later than o in the order the engine tries the splits
TriedFirst(m, o) ==
    \E i \in 1..6 :
        /\ \A j \in 1..(i - 1) : m[j] = o[j]
        /\ i = 6 \/ m[i] > o[i]

\* pastedInputParsingRegex.exec(s): whether it matches, and the four groups
\* (a group that did not take part is undefined; it is written <<>> here,
\* the caller drops undefined and empty groups alike)
RegexExec(s) ==
    LET splits == RegexSplits(s)
    IN  IF splits = {}
        THEN [matched |-> FALSE, groups |-> <<<<>>, <<>>, <<>>, <<>>>>]
        ELSE LET m == CHOOSE x \in splits : \A o \in splits : TriedFirst(x, o)
                 at2 == m[1] + m[2]
                 at3 == at2 + m[3]
                 at4 == at3 + m[4]
             IN  [matched |-> TRUE,
                  groups |-> <<SubSeq(s, 1, m[1]),
                               SubSeq(s, at2 + 1, at3),
                               SubSeq(s, at3 + 1, at4),
                               SubSeq(s, at4 + 1, at4 + m[5])>>]

(***************************************************************************)
(* getPossibleNumberSubstring                                              *)
(***************************************************************************)
\* [...match].slice(1, end).filter(Boolean).join('') for end = 3 or the
\* length of the match
JoinGroups(groups, end) ==
    LET Join[i \in 0..4] ==
            IF i = 0 THEN <<>>
            ELSE IF i < end THEN Join[i - 1] \o groups[i] ELSE Join[i - 1]
    IN  Join[4]

\* a version without the test for input that is nothing but noise
getPossibleNumberSubstringNoNoiseTest(value, allowDecimal) ==
    LET preparedString == prepareStringValue(value)
        match == RegexExec(preparedString)
    IN  IF ~match.matched
        THEN UndefinedStr
        ELSE Str(JoinGroups(match.groups, IF allowDecimal THEN 5 ELSE 3))

getPossibleNumberSubstring(value, allowDecimal) ==
    LET preparedString == prepareStringValue(value)
        match == RegexExec(preparedString)
    IN  IF ~match.matched \/ (Len(value) > 0 /\ Len(preparedString) = 0)
        THEN UndefinedStr
        ELSE Str(JoinGroups(match.groups, IF allowDecimal THEN 5 ELSE 3))

(***************************************************************************)
(* getParsedValue                                                          *)
(*                                                                         *)
(* The result of Number(string) is a decimal [k, m, e]: k = "dec" is the   *)
(* number m / 10^e with the trailing zeros of the fraction removed, and    *)
(* the other kinds are NaN and null.                                       *)
(***************************************************************************)
DecNaN == [k |-> "nan", m |-> 0, e |-> 0]

DecNull == [k |-> "null", m |-> 0, e |-> 0]

RECURSIVE Dec(_, _)
\* the decimal m / 10^e, normalised
Dec(m, e) ==
    IF e > 0 /\ m % 10 = 0 THEN Dec(m \div 10, e - 1)
    ELSE [k |-> "dec", m |-> m, e |-> e]

\* the value of a digit character
DigitValue(c) == (CHOOSE i \in 1..10 : DigitChars[i] = c) - 1

RECURSIVE DigitsValue(_)
\* the value of a string of digits
DigitsValue(s) ==
    IF s = <<>> THEN 0
    ELSE 10 * DigitsValue(SubSeq(s, 1, Len(s) - 1)) + DigitValue(s[Len(s)])

\* the string without its leading and trailing whitespace
Trim(s) ==
    IF \A i \in 1..Len(s) : IsWhitespace(s[i]) THEN <<>>
    ELSE LET first == CHOOSE i \in 1..Len(s) :
                        ~IsWhitespace(s[i]) /\ \A j \in 1..(i - 1) : IsWhitespace(s[j])
             last  == CHOOSE i \in 1..Len(s) :
                        ~IsWhitespace(s[i]) /\ \A j \in (i + 1)..Len(s) : IsWhitespace(s[j])
         IN  SubSeq(s, first, last)

\* Number(s) for a string of the modelled alphabet (no exponent, no
\* "Infinity", no radix prefix): whitespace is trimmed, the empty string is
\* 0, a decimal literal with an optional sign is its value, the rest is NaN
StringToNumber(s) ==
    LET t == Trim(s)
        signed == t # <<>> /\ IsSign(t[1])
        body == IF signed THEN SubSeq(t, 2, Len(t)) ELSE t
        digits == SelectSeq(body, IsDigit)
        points == {i \in 1..Len(body) : body[i] = "."}
    IN  IF t = <<>> THEN Dec(0, 0)
        ELSE IF /\ \A i \in 1..Len(body) : IsDigit(body[i]) \/ body[i] = "."
                /\ Cardinality(points) <= 1
                /\ digits # <<>>
             THEN LET e == IF points = {} THEN 0
                           ELSE Len(body) - (CHOOSE i \in points : TRUE)
                      m == DigitsValue(digits)
                  IN  Dec(IF signed /\ t[1] = "-" THEN -m ELSE m, e)
             ELSE DecNaN

\* getParsedValue(value): {valid, value}
getParsedValue(value) ==
    IF ~value.defined \/ value.str = <<>>
    THEN [valid |-> TRUE, value |-> DecNull]
    ELSE LET parsedValueOrNaN == StringToNumber(value.str)
             isValidValue == parsedValueOrNaN # DecNaN
         IN  [valid |-> isValidValue,
              value |-> IF isValidValue THEN parsedValueOrNaN ELSE DecNull]

(***************************************************************************)
(* The specification of the string functions                               *)
(***************************************************************************)
\* the characters of the generated strings
Alphabet == {"1", "2", ".", ",", "-", "+", " ", "a"}

GeneratedStrings == UNION {[1..n -> Alphabet] : n \in 0..MaxLen}

\* the strings of the tests of getPossibleNumberSubstring, and two more
ExtractExamples ==
    {<<"$", "$", "$", "1", "2", "3">>,
     <<"1", "2", "3", "k">>,
     <<"-", "$", "1", "2", "3", "k">>,
     <<"$", "1", "2", "3", "k">>,
     <<"-", " ", "$", "1", "2", "3", " ", "4", "5", "6", ",", "7", "8", "k">>,
     <<"$", "1", "2", "3", ".", "4", "5", "k">>,
     <<"$", "1", "2", "3", "a", "b", "c", ".", "4", "5", "k">>,
     <<"a", "b", "c">>,
     <<"1", ",", "2", ",", "3">>}

\* the strings of the tests of getParsedValue, and one more
ParseExamples ==
    {<<"-", "1", "2", "3", ".", "4", "5">>,
     <<"a", "b", "c", "1", "2", "3", "d", "e", "f">>,
     <<"1", ".", "5", "0">>}

StringInputs ==
    [fn : {"sanitize"}, value : GeneratedStrings \cup ExtractExamples]
      \cup [fn : {"extract"}, value : GeneratedStrings \cup ExtractExamples,
            allowDecimal : BOOLEAN]
      \cup [fn : {"parse"},
            value : {UndefinedStr} \cup {Str(s) : s \in GeneratedStrings \cup ParseExamples}]

InitString ==
    /\ LockUnused
    /\ input \in StringInputs
    /\ output = NoResult

\* the widget sanitizes the text
Sanitize ==
    /\ input.fn = "sanitize"
    /\ output = NoResult
    /\ output' = [done |-> TRUE, again |-> FALSE, value |-> prepareStringValue(input.value)]
    /\ UNCHANGED <<input, lockVars>>

\* the widget sanitizes the sanitized text
SanitizeAgain ==
    /\ input.fn = "sanitize"
    /\ output.done
    /\ ~output.again
    /\ output' = [done |-> TRUE, again |-> TRUE, first |-> output.value,
                  value |-> prepareStringValue(output.value)]
    /\ UNCHANGED <<input, lockVars>>

\* the widget extracts the number from pasted text
Extract ==
    /\ input.fn = "extract"
    /\ output = NoResult
    /\ output' = [done |-> TRUE,
                  value |-> getPossibleNumberSubstring(input.value, input.allowDecimal)]
    /\ UNCHANGED <<input, lockVars>>

\* the widget parses the text
Parse ==
    /\ input.fn = "parse"
    /\ output = NoResult
    /\ output' = [done |-> TRUE, value |-> getParsedValue(input.value)]
    /\ UNCHANGED <<input, lockVars>>

NextString == Sanitize \/ SanitizeAgain \/ Extract \/ Parse

SpecString == InitString /\ [][NextString]_vars

\* the result of getParsedValue is there
Parsed == input.fn = "parse" /\ output.done

\* the candidate is a string that Number() turns into a number
ParsesAsNumber ==
    /\ input.value.defined
    /\ input.value.str # <<>>
    /\ StringToNumber(input.value.str) # DecNaN

(***************************************************************************)
(* C7: getParsedValue never returns an empty (null) numeric value: an      *)
(* undefined or empty candidate gives value 0 with valid = true, a         *)
(* candidate that fails numeric parsing gives value 0 with valid = false,  *)
(* and a candidate that parses as a number gives that number with valid =  *)
(* true.                                                                   *)
(***************************************************************************)
C7_NeverNull ==
    Parsed =>
        /\ output.value.value # DecNull
        /\ ~input.value.defined \/ input.value.str = <<>>
             => output.value = [valid |-> TRUE, value |-> Dec(0, 0)]
        /\ input.value.defined /\ input.value.str # <<>> /\ ~ParsesAsNumber
             => output.value = [valid |-> FALSE, value |-> Dec(0, 0)]
        /\ ParsesAsNumber
             => output.value = [valid |-> TRUE, value |-> StringToNumber(input.value.str)]

\* the result of getPossibleNumberSubstring is there
Extracted == input.fn = "extract" /\ output.done

\* a letter of a unit or of other noise
IsLetter(c) == c \in {"a", "b", "c", "d", "e", "f", "k"}

\* the raw string has a letter somewhere between two of its digits
LetterBetweenDigits(raw) ==
    \E i, j, k \in 1..Len(raw) :
        i < j /\ j < k /\ IsDigit(raw[i]) /\ IsLetter(raw[j]) /\ IsDigit(raw[k])

(***************************************************************************)
(* C8: getPossibleNumberSubstring returns undefined for "$123abc.45k" with *)
(* allowDecimal = true, and for every raw string that has letters between  *)
(* its digits (not only as a leading or trailing unit).                    *)
(***************************************************************************)
C8_LettersInsideIsNoMatch ==
    Extracted /\ LetterBetweenDigits(input.value) => output.value = UndefinedStr

\* The grammar of the claim: sign? noise* digits* separator? digits* noise*
\* over the whole string
MatchesGrammar(s) ==
    LET n == Len(s)
    IN  \E a \in 0..1 :
          /\ a = 1 => n >= 1 /\ IsSign(s[1])
          /\ \E b \in 0..(n - a) :
               /\ \A j \in (a + 1)..(a + b) : ~IsDigit(s[j])
               /\ \E c \in 0..(n - a - b) :
                    /\ \A j \in (a + b + 1)..(a + b + c) : IsDigit(s[j])
                    /\ \E d \in 0..1 :
                         /\ a + b + c + d <= n
                         /\ d = 1 => IsSeparator(s[a + b + c + 1])
                         /\ \E e \in 0..(n - a - b - c - d) :
                              /\ \A j \in (a + b + c + d + 1)..(a + b + c + d + e) :
                                     IsDigit(s[j])
                              /\ \A j \in (a + b + c + d + e + 1)..n : ~IsDigit(s[j])

\* The captured groups of a matching string, read from left to right: the
\* sign, the first run of digits after the leading noise, the separator
\* that follows it directly, and the digits after that separator
ScanGroups(s) ==
    LET n == Len(s)
        sign  == IF n >= 1 /\ IsSign(s[1]) THEN 1 ELSE 0
        from  == CHOOSE i \in (sign + 1)..(n + 1) :
                    /\ \A j \in (sign + 1)..(i - 1) : ~IsDigit(s[j])
                    /\ i <= n => IsDigit(s[i])
        upto  == CHOOSE i \in from..(n + 1) :
                    /\ \A j \in from..(i - 1) : IsDigit(s[j])
                    /\ i <= n => ~IsDigit(s[i])
        sep   == IF upto <= n /\ IsSeparator(s[upto]) THEN 1 ELSE 0
        last  == CHOOSE i \in (upto + sep)..(n + 1) :
                    /\ \A j \in (upto + sep)..(i - 1) : IsDigit(s[j])
                    /\ i <= n => ~IsDigit(s[i])
    IN  [sign |-> SubSeq(s, 1, sign),
         integer |-> SubSeq(s, from, upto - 1),
         separator |-> SubSeq(s, upto, upto + sep - 1),
         fraction |-> SubSeq(s, upto + sep, last - 1)]

C10_ClosedAndIdempotent ==
    input.fn = "sanitize" /\ output.done =>
        /\ \A i \in 1..Len(output.value) :
              \/ output.value[i] \in {".", "+", "-"}
              \/ \E d \in 1..10 : DigitChars[d] = output.value[i]
        /\ output.again => output.value = output.first

\* a text with two commas and a blank: the first comma became a period, the
\* rest went away, and the second pass kept the result
C10_Witness ==
    /\ input.fn = "sanitize"
    /\ output.done
    /\ output.again
    /\ input.value = <<"1", ",", ",", " ">>
    /\ output.first = <<"1", ".">>
    /\ output.value = <<"1", ".">>

(***************************************************************************)
(* updateCursorPosition                                                    *)
(***************************************************************************)
\* a ?? b and a parameter default on a string | undefined
DefaultStr(a, d) == IF a.defined THEN a.str ELSE d

\* the index a relative (possibly negative) index of slice stands for
SliceIndex(s, i) ==
    IF i < 0 THEN (IF Len(s) + i < 0 THEN 0 ELSE Len(s) + i)
    ELSE IF i > Len(s) THEN Len(s) ELSE i

\* s.slice(start, end): a negative index counts from the end of the string
Slice(s, start, end) == SubSeq(s, SliceIndex(s, start) + 1, SliceIndex(s, end))

\* input.setRangeText(replacement, start, end, 'end') on a field with the
\* given value: the range is replaced and the caret is put after it
SetRangeText(value, replacement, start, end) ==
    [value |-> SubSeq(value, 1, start) \o replacement \o SubSeq(value, end + 1, Len(value)),
     caret |-> start + Len(replacement)]

\* updateCursorPosition(inputRef, eventRawValue, computedEventValue): the
\* calls of setRangeText it makes and the field afterwards.  field is
\* inputRef.current: present or null, with its value and selectionEnd.
updateCursorPosition(field, rawArg, computedArg) ==
    LET eventRawValue == DefaultStr(rawArg, <<>>)
        computedEventValue == DefaultStr(computedArg, <<>>)
        currentSelectionEndPosition ==
            IF field.present THEN field.selectionEnd ELSE Len(eventRawValue)
        startingPossiblyChangedPart == Slice(eventRawValue, 0, currentSelectionEndPosition)
        trailingUnchangedLength == Len(eventRawValue) - Len(startingPossiblyChangedPart)
        newStartingPart ==
            Slice(computedEventValue, 0, Len(computedEventValue) - trailingUnchangedLength)
    IN  IF eventRawValue # computedEventValue /\ field.present
        THEN LET after == SetRangeText(field.value, newStartingPart, 0,
                                       Len(startingPossiblyChangedPart))
             IN  [edits |-> <<[text |-> newStartingPart, start |-> 0,
                               end |-> Len(startingPossiblyChangedPart), mode |-> "end"]>>,
                  value |-> after.value, caret |-> after.caret]
        ELSE [edits |-> <<>>, value |-> field.value, caret |-> field.selectionEnd]

\* the characters of the texts of the field
CursorAlphabet == {"1", "."}

\* the texts of the example: "123." is rewritten to "123.4"
CursorExampleOld == <<"1", "2", "3", ".">>

CursorExampleNew == <<"1", "2", "3", ".", "4">>

CursorTexts ==
    UNION {[1..n -> CursorAlphabet] : n \in 0..MaxLen}
      \cup {CursorExampleOld, CursorExampleNew}

\* the field shows the raw text of the event; the caret is anywhere in it
CursorInputs ==
    UNION {[fn : {"cursor"}, raw : {Str(old)},
            computed : {UndefinedStr} \cup {Str(new) : new \in CursorTexts},
            field : [present : BOOLEAN, value : {old}, selectionEnd : 0..Len(old)]]
           : old \in CursorTexts}
      \cup [fn : {"cursor"}, raw : {UndefinedStr},
            computed : {UndefinedStr} \cup {Str(new) : new \in CursorTexts},
            field : [present : BOOLEAN, value : {<<>>}, selectionEnd : {0}]]

InitCursor ==
    /\ LockUnused
    /\ input \in CursorInputs
    /\ output = NoResult

\* the widget reconciles the field with the computed text
UpdateCursor ==
    /\ input.fn = "cursor"
    /\ output = NoResult
    /\ output' = [done |-> TRUE,
                  value |-> updateCursorPosition(input.field, input.raw, input.computed)]
    /\ UNCHANGED <<input, lockVars>>

NextCursor == UpdateCursor

SpecCursor == InitCursor /\ [][NextCursor]_vars

\* the result of updateCursorPosition is there, for a field that exists
CursorUpdated == input.fn = "cursor" /\ output.done /\ input.field.present

(***************************************************************************)
(* C11: updateCursorPosition makes no edit when the raw and the computed   *)
(* text are equal; otherwise, with the caret at c in the old text and      *)
(* L = len(old) - c, it makes exactly one replacement of [0, c) by the     *)
(* first max(len(new) - L, 0) characters of the new text with mode 'end',  *)
(* so the old text after the caret stays and the caret is after the        *)
(* replacement ("123." to "123.4" with the caret at 4 replaces [0, 4) by   *)
(* "123.4" and leaves the caret at 5).                                     *)
(***************************************************************************)
C11_OneEditOfThePrefix ==
    CursorUpdated =>
        LET old == IF input.raw.defined THEN input.raw.str ELSE <<>>
            new == IF input.computed.defined THEN input.computed.str ELSE <<>>
            c == input.field.selectionEnd
            L == Len(old) - c
            keep == IF Len(new) - L > 0 THEN Len(new) - L ELSE 0
            prefix == SubSeq(new, 1, keep)
        IN  /\ old = new => output.value.edits = <<>>
            /\ old # new =>
                 /\ output.value.edits =
                       <<[text |-> prefix, start |-> 0, end |-> c, mode |-> "end"]>>
                 /\ output.value.value = prefix \o SubSeq(old, c + 1, Len(old))
                 /\ output.value.caret = keep
            /\ old = CursorExampleOld /\ new = CursorExampleNew /\ c = 4 =>
                 /\ output.value.value = CursorExampleNew
                 /\ output.value.caret = 5

\* the validator has classified a number that passes the sign and the
\* fraction check
BoundsChecked ==
    /\ input.fn = "validator"
    /\ output.done
    /\ input.value.k = "num"
    /\ ~(input.params.positiveOnly /\ input.value.v < 0)
    /\ ~(input.params.withoutFraction /\ input.value.v % Denom # 0)

BoundViolations == {"NUMBER_LESS_THAN_MIN_ALLOWED", "NUMBER_GREATER_THAN_MAX_ALLOWED"}

(***************************************************************************)
(* C12: the validator swaps the bounds when min is given greater than max: *)
(* with min > max every value v with max <= v <= min (and no sign or       *)
(* fraction violation) gets no bound violation; an unset bound is          *)
(* Number.MIN_SAFE_INTEGER or Number.MAX_SAFE_INTEGER.                     *)
(***************************************************************************)
C12_BoundsSwapped ==
    BoundsChecked =>
        LET min == input.params.min
            max == input.params.max
            v   == input.value.v
        IN  /\ min.k = "num" /\ max.k = "num" /\ min.v > max.v /\ max.v <= v /\ v <= min.v
                 => output.value \notin BoundViolations
            /\ min = Undefined =>
                 (output.value = "NUMBER_LESS_THAN_MIN_ALLOWED" <=> v < MIN_SAFE_INTEGER.v)
            /\ max = Undefined /\ output.value # "NUMBER_LESS_THAN_MIN_ALLOWED" =>
                 (output.value = "NUMBER_GREATER_THAN_MAX_ALLOWED" <=> v > MAX_SAFE_INTEGER.v)

(***************************************************************************)
(* getInternalState                                                        *)
(***************************************************************************)
\* the falsy values among numbers, null and undefined: 0, NaN, null, undefined
Falsy(a) == a.k \in {"undefined", "null", "nan"} \/ (a.k = "num" /\ a.v = 0)

\* Math.floor
MathFloor(a) ==
    CASE a.k = "num" -> Num(FloorDiv(a.v, Denom) * Denom)
      [] a.k = "undefined" -> NaN
      [] a.k = "null" -> Num(0)
      [] OTHER -> a

\* Math.abs
MathAbs(a) ==
    CASE a.k = "num" -> Num(IF a.v < 0 THEN -a.v ELSE a.v)
      [] a.k = "ninf" -> PosInf
      [] a.k = "undefined" -> NaN
      [] a.k = "null" -> Num(0)
      [] OTHER -> a

roundIfNecessary(value, allowDecimal) == IF allowDecimal THEN value ELSE MathFloor(value)

\* getInternalState(props): {min, max, step, shiftMultiplier, value, defaultValue}
getInternalState(props) ==
    LET externalMin == props.min
        externalMax == props.max
        swapped == ~Falsy(externalMin) /\ ~Falsy(externalMax) /\ Gt(externalMin, externalMax)
        rangedMin == IF swapped THEN externalMax ELSE externalMin
        rangedMax == IF swapped THEN externalMin ELSE externalMax
    IN  [min |-> IF ~Falsy(rangedMin) /\ Ge(rangedMin, MIN_SAFE_INTEGER)
                 THEN rangedMin ELSE Undefined,
         max |-> IF ~Falsy(rangedMax) /\ Le(rangedMax, MAX_SAFE_INTEGER)
                 THEN rangedMax ELSE Undefined,
         step |-> OrElse(roundIfNecessary(MathAbs(props.step), props.allowDecimal),
                         Int2Num(1)),
         shiftMultiplier |-> OrElse(roundIfNecessary(props.shiftMultiplier,
                                                     props.allowDecimal),
                                    Int2Num(10)),
         value |-> IF ~Falsy(props.value)
                   THEN roundIfNecessary(props.value, props.allowDecimal)
                   ELSE props.value,
         defaultValue |-> IF ~Falsy(props.defaultValue)
                          THEN roundIfNecessary(props.defaultValue, props.allowDecimal)
                          ELSE props.defaultValue]

\* the largest magnitude, in units, of the bounds, steps and multipliers
\* given to getInternalState
MaxState == 2

\* the bounds of the props: unset, a number around 0, or a number just
\* outside the safe-integer range
StateBounds ==
    {Undefined} \cup {Num(n) : n \in -MaxState..MaxState}
      \cup {Num(MAX_SAFE_INTEGER.v + Denom), Num(MIN_SAFE_INTEGER.v - Denom)}

StateSteps == {NaN} \cup {Num(n) : n \in -MaxState..MaxState}

StateMultipliers == {Undefined} \cup {Num(n) : n \in -MaxState..MaxState}

StateValues == {Undefined, Null, Num(0), Num(-1)}

StateInputs ==
    [fn : {"state"},
     props : [min : StateBounds, max : StateBounds, step : StateSteps,
              shiftMultiplier : StateMultipliers, value : StateValues,
              defaultValue : StateValues, allowDecimal : BOOLEAN]]

InitState ==
    /\ LockUnused
    /\ input \in StateInputs
    /\ output = NoResult

\* the widget computes its internal state from the props
ComputeState ==
    /\ input.fn = "state"
    /\ output = NoResult
    /\ output' = [done |-> TRUE, value |-> getInternalState(input.props)]
    /\ UNCHANGED <<input, lockVars>>

NextState == ComputeState

SpecState == InitState /\ [][NextState]_vars

\* the result of getInternalState is there
StateComputed == input.fn = "state" /\ output.done

\* both bounds are supplied
BothSupplied == input.props.min.k = "num" /\ input.props.max.k = "num"

\* a supplied bound lies within the safe-integer range
InSafeRange(a) == MIN_SAFE_INTEGER.v <= a.v /\ a.v <= MAX_SAFE_INTEGER.v

(***************************************************************************)
(* C13: getInternalState swaps the bounds whenever both are supplied and   *)
(* min > max: for every such pair, also when one bound is 0, the returned  *)
(* min is the smaller supplied bound and the returned max the larger one   *)
(* (stated here for bounds within the safe-integer range).                 *)
(***************************************************************************)
C13_SwappedWhenMinAboveMax ==
    /\ StateComputed
    /\ BothSupplied
    /\ input.props.min.v > input.props.max.v
    /\ InSafeRange(input.props.min)
    /\ InSafeRange(input.props.max)
    =>
        /\ output.value.min = input.props.max
        /\ output.value.max = input.props.min

(***************************************************************************)
(* C14: for every input the returned step is > 0 (and an integer when      *)
(* allowDecimal is false), and the returned shiftMultiplier is 10 whenever *)
(* the supplied one is zero, negative or unset, so it is always > 0.       *)
(***************************************************************************)
C14_PositiveStepAndMultiplier ==
    StateComputed =>
        LET given == input.props.shiftMultiplier
            state == output.value
        IN  /\ state.step.k = "num" /\ state.step.v > 0
            /\ ~input.props.allowDecimal => state.step.v % Denom = 0
            /\ given = Undefined \/ (given.k = "num" /\ given.v <= 0)
                 => state.shiftMultiplier = Int2Num(10)
            /\ state.shiftMultiplier.k = "num" /\ state.shiftMultiplier.v > 0

(***************************************************************************)
(* C16: getInternalState keeps bounds that are in range: for every         *)
(* supplied min <= max within the safe-integer range, the value 0          *)
(* included, the returned min and max are the supplied ones; a bound       *)
(* becomes undefined only when it was not supplied or lies outside the     *)
(* safe-integer range.                                                     *)
(***************************************************************************)
C16_InRangeBoundsKept ==
    StateComputed =>
        LET min == input.props.min
            max == input.props.max
        IN  /\ BothSupplied /\ min.v <= max.v /\ InSafeRange(min) /\ InSafeRange(max)
                 => output.value.min = min /\ output.value.max = max
            /\ ~(BothSupplied /\ min.v > max.v) /\ output.value.min = Undefined
                 => min = Undefined \/ ~InSafeRange(min)
            /\ ~(BothSupplied /\ min.v > max.v) /\ output.value.max = Undefined
                 => max = Undefined \/ ~InSafeRange(max)

(***************************************************************************)
(* C15: whenever locks = 0 the inline overflow, paddingRight and           *)
(* paddingBottom of the body are the ones from before the first            *)
(* activation, and while locks >= 1 overflow is 'hidden' and               *)
(* storedBodyStyle holds the values from before the lock: a nested         *)
(* activation or an out-of-order release neither overwrites                *)
(* storedBodyStyle nor restores the styles early.  Nothing but the hook    *)
(* writes these styles.                                                    *)
(***************************************************************************)
C15_StylesRestored ==
    /\ locks = 0 => bodyStyle = initialBodyStyle
    /\ locks >= 1 =>
         /\ bodyStyle.overflow = <<"hidden">>
         /\ storedBodyStyle = initialBodyStyle

====
